---- MODULE Spec2Model ----
(***************************************************************************)
(* Model of 01-BayesianRanking.ipynb: class Coin and its trial loop        *)
(* Coin.simulate (Thompson sampling over Beta posteriors).                 *)
(*                                                                         *)
(* Real numbers are scaled to small integers: probabilities, uniform draws *)
(* and Beta samples are counted in halves (0 = 0.0, 1 = 0.5, 2 = 1.0).     *)
(* Only their order is used by the code.  Python booleans are 0 / 1, as    *)
(* the arithmetic in Coin.update treats them.                              *)
(***************************************************************************)
EXTENDS Integers, Sequences, FiniteSets

\* ------------------------------------------------------------------ bounds
MaxArms == 2
MaxTrials == 7

\* true probabilities p in [0,1]; np.random.rand() in [0,1); Beta samples in [0,1]
PValues == {0, 1, 2}
RandValues == {0, 1}
SampleValues == {0, 1, 2}

\* answers typed at the 'Continue?' prompt: 'n' and anything else
Answers == {"n", "y"}

\* ------------------------------------------------------- program constants
\* maxsample = -1 (SentinelLeastSample: the least sample value, 0.0, instead)
SentinelLeastSample == CHOOSE s \in SampleValues : \A t \in SampleValues : s <= t
Sentinel == -1

\* the list of trial indices at which the posteriors are plotted
SnapshotIndices == {5, 10, 20, 50, 100, 200, 500, 1000, 2000, 5000, 9999}

VARIABLES
    p,            \* experiment.p : the list of true probabilities
    n,            \* argument of simulate
    alpha,        \* alpha[k] of coins[k]
    beta,         \* beta[k] of coins[k]
    i,            \* loop variable of 'for i in range(n)'
    j,            \* position of the inner 'for coin in coins' (1-based)
    maxsample,
    maxcoin,      \* index into coins, 0 while the local is unbound
    samples,
    c,            \* last answer read by input(), "" before the first
    pc,           \* idle, sample, update, plot, input, done, error, raised
    \* history variables, read by no action guard
    executed,     \* how many times line 107 ran to completion
    wins,         \* wins[k]: tosses of coins[k] that came up True
    losses,       \* losses[k]: tosses of coins[k] that came up False
    selected,     \* selected[k]: trials in which coins[k] was maxcoin
    maxcoinTrial, \* trial index in which maxcoin was last assigned, -1 if never
    stoppedAt     \* trial index at which 'n' was answered, -1 if never

vars == <<p, n, alpha, beta, i, j, maxsample, maxcoin, samples, c, pc,
          executed, wins, losses, selected, maxcoinTrial, stoppedAt>>

hist == <<executed, wins, losses, selected, maxcoinTrial, stoppedAt>>

\* ----------------------------------------------------------------- helpers
RECURSIVE SumSeq(_)
SumSeq(s) == IF s = <<>> THEN 0 ELSE Head(s) + SumSeq(Tail(s))

Ones(k) == [x \in 1..k |-> 1]
Zeros(k) == [x \in 1..k |-> 0]

Pools == UNION {[1..k -> PValues] : k \in 0..MaxArms}

NumCoins == Len(p)

\* Coin.toss: np.random.rand() < self.p, as 0 / 1
toss(r, prob) == IF r < prob THEN 1 ELSE 0

\* Coin.update on the pair <<alpha, beta>> of one coin
updateNoFailure(ab, x) == IF x # 0 THEN <<ab[1] + x, ab[2]>> ELSE <<ab[1], ab[2] + x>>
updateSwapped(ab, x) == IF x # 0 THEN <<ab[1], ab[2] + x>> ELSE <<ab[1] + (1 - x), ab[2]>>
updateDouble(ab, x) == IF x # 0 THEN <<ab[1] + x + x, ab[2]>> ELSE <<ab[1], ab[2] + (1 - x)>>
update(ab, x) == IF x # 0 THEN <<ab[1] + x, ab[2]>> ELSE <<ab[1], ab[2] + (1 - x)>>

\* 'if sample > maxsample'
BeatsOrTies(sample, max) == sample >= max
Beats(sample, max) == sample > max

\* membership of k in range(n)
InRangeInclusive(k, m) == 0 <= k /\ k <= m
InRange(k, m) == 0 <= k /\ k < m

\* ------------------------------------------------------------------- Init
\* experiment = Coin(p=...) has been constructed; simulate not yet called.
Init ==
    /\ p \in Pools
    /\ n \in -1..MaxTrials
    /\ alpha = <<>>
    /\ beta = <<>>
    /\ i = -1
    /\ j = 0
    /\ maxsample = Sentinel
    /\ maxcoin = 0
    /\ samples = <<>>
    /\ c = ""
    /\ pc = "idle"
    /\ executed = 0
    /\ wins = <<>>
    /\ losses = <<>>
    /\ selected = <<>>
    /\ maxcoinTrial = -1
    /\ stoppedAt = -1

\* Head of 'for i in range(n)' for the candidate index k: either the body is
\* entered (maxsample and samples are reset, maxcoin is not), or the loop is
\* over and 'Simulation completed!' is printed.
LoopHead(k) ==
    IF InRange(k, n)
    THEN /\ i' = k
         /\ maxsample' = Sentinel
         /\ samples' = <<>>
         /\ j' = 1
         /\ pc' = IF NumCoins = 0 THEN "update" ELSE "sample"
    ELSE /\ pc' = "done"
         /\ UNCHANGED <<i, maxsample, samples, j>>

\* simulate(n) is called: coins = [Coin(true_p) for true_p in self.p]
Start ==
    /\ pc = "idle"
    /\ alpha' = Ones(NumCoins)
    /\ beta' = Ones(NumCoins)
    /\ wins' = Zeros(NumCoins)
    /\ losses' = Zeros(NumCoins)
    /\ selected' = Zeros(NumCoins)
    /\ LoopHead(0)
    /\ UNCHANGED <<p, n, maxcoin, c, executed, maxcoinTrial, stoppedAt>>

\* one pass of 'for coin in coins': sample, append, compare
Sample ==
    /\ pc = "sample"
    /\ \E s \in SampleValues :
         /\ samples' = Append(samples, s)
         /\ IF Beats(s, maxsample)
            THEN /\ maxsample' = s
                 /\ maxcoin' = j
                 /\ maxcoinTrial' = i
            ELSE UNCHANGED <<maxsample, maxcoin, maxcoinTrial>>
    /\ IF j = NumCoins
       THEN pc' = "update" /\ j' = j
       ELSE pc' = "sample" /\ j' = j + 1
    /\ UNCHANGED <<p, n, alpha, beta, i, c, executed, wins, losses, selected, stoppedAt>>

\* maxcoin.update(maxcoin.toss()) with maxcoin unbound: UnboundLocalError
UpdateUnbound ==
    /\ pc = "update"
    /\ maxcoin = 0
    /\ pc' = "error"
    /\ UNCHANGED <<p, n, alpha, beta, i, j, maxsample, maxcoin, samples, c, hist>>

\* maxcoin.update(maxcoin.toss()), then the snapshot test, then the loop head
Update ==
    /\ pc = "update"
    /\ maxcoin # 0
    /\ \E r \in RandValues :
         LET x == toss(r, p[maxcoin])
             ab == update(<<alpha[maxcoin], beta[maxcoin]>>, x)
         IN /\ alpha' = [alpha EXCEPT ![maxcoin] = ab[1]]
            /\ beta' = [beta EXCEPT ![maxcoin] = ab[2]]
            /\ wins' = [wins EXCEPT ![maxcoin] = @ + x]
            /\ losses' = [losses EXCEPT ![maxcoin] = @ + (1 - x)]
    /\ selected' = [selected EXCEPT ![maxcoin] = @ + 1]
    /\ executed' = executed + 1
    /\ IF i \in SnapshotIndices
       THEN /\ pc' = "plot"
            /\ UNCHANGED <<i, j, maxsample, samples>>
       ELSE LoopHead(i + 1)
    /\ UNCHANGED <<p, n, maxcoin, c, maxcoinTrial, stoppedAt>>

\* self.plot(coins, i) returns
PlotReturns ==
    /\ pc = "plot"
    /\ pc' = "input"
    /\ UNCHANGED <<p, n, alpha, beta, i, j, maxsample, maxcoin, samples, c, hist>>

\* self.plot(coins, i) raises; nothing in simulate catches it
PlotRaises ==
    /\ pc = "plot"
    /\ pc' = "raised"
    /\ UNCHANGED <<p, n, alpha, beta, i, j, maxsample, maxcoin, samples, c, hist>>

\* c = input('Continue?') returns a; 'n' breaks, anything else goes on
InputNoBreak(a) ==
    /\ pc = "input"
    /\ c' = a
    /\ LoopHead(i + 1)
    /\ stoppedAt' = IF a = "n" THEN i ELSE stoppedAt
    /\ UNCHANGED <<p, n, alpha, beta, maxcoin, executed, wins, losses, selected, maxcoinTrial>>
Input(a) ==
    /\ pc = "input"
    /\ c' = a
    /\ IF a = "n"
       THEN /\ pc' = "done"
            /\ stoppedAt' = i
            /\ UNCHANGED <<i, j, maxsample, samples>>
       ELSE /\ LoopHead(i + 1)
            /\ UNCHANGED stoppedAt
    /\ UNCHANGED <<p, n, alpha, beta, maxcoin, executed, wins, losses, selected, maxcoinTrial>>

Next ==
    \/ Start
    \/ Sample
    \/ UpdateUnbound
    \/ Update
    \/ PlotReturns
    \/ PlotRaises
    \/ \E a \in Answers : Input(a)

Spec == Init /\ [][Next]_vars

\* The run loop is scheduled by the interpreter; the plot backend and the user
\* at the prompt are outside the program and get no fairness.
FairSpec ==
    /\ Spec
    /\ WF_vars(Start)
    /\ WF_vars(Sample)
    /\ WF_vars(UpdateUnbound)
    /\ WF_vars(Update)

\* ------------------------------------------------------------- properties
\* sum over the arms of (alpha - 1) + (beta - 1)
ArmSum == SumSeq(alpha) + SumSeq(beta) - 2 * Len(alpha)

Arms == 1..Len(alpha)

\* arm k moved by exactly one unit on exactly one of alpha, beta
MovedByOne(k) ==
    \/ alpha'[k] = alpha[k] + 1 /\ beta'[k] = beta[k]
    \/ alpha'[k] = alpha[k] /\ beta'[k] = beta[k] + 1

TrialStep ==
    /\ executed' = executed + 1
    /\ \E k \in Arms :
         /\ MovedByOne(k)
         /\ \A m \in Arms \ {k} : alpha'[m] = alpha[m] /\ beta'[m] = beta[m]

NoTrialStep == executed' = executed /\ alpha' = alpha /\ beta' = beta

\* C1: in every state of the trial loop the sum over the arms of
\* (alpha - 1) + (beta - 1) equals the number of trials executed so far, and
\* every step either leaves all arms alone or is one trial that moves exactly
\* one arm by one unit on exactly one of alpha or beta.
C1_SumEqualsTrials ==
    /\ [](ArmSum = executed)
    /\ [][pc # "idle" => (TrialStep \/ NoTrialStep)]_vars

C1_Witness ==
    /\ executed >= 3
    /\ Len(alpha) = 2
    /\ alpha[1] = 2
    /\ beta[2] = 2

\* C2: each arm has alpha = 1 + (successes tossed while it was selected) and
\* beta = 1 + (failures tossed while it was selected), and successes plus
\* failures is the number of trials in which it was the selected arm.
C2_ArmCounts ==
    \A k \in Arms :
        /\ alpha[k] = 1 + wins[k]
        /\ beta[k] = 1 + losses[k]
        /\ wins[k] + losses[k] = selected[k]

C2_Witness ==
    \E k \in Arms : wins[k] >= 2 /\ losses[k] >= 1

\* the lowest index among the positions holding the maximum of s
IsFirstArgMax(s, k) ==
    /\ k \in 1..Len(s)
    /\ \A m \in 1..Len(s) : s[m] <= s[k]
    /\ \A m \in 1..(k - 1) : s[m] < s[k]

\* C3: when the inner loop of a trial is over, one sample has been drawn per
\* arm and the arm about to be updated holds the maximum sample, the
\* lowest-indexed one among equal maxima (all-equal and all-zero included).
C3_FirstMaxSelected ==
    (pc = "update" /\ NumCoins > 0) =>
        /\ Len(samples) = NumCoins
        /\ IsFirstArgMax(samples, maxcoin)

C3_Witness ==
    /\ pc = "update"
    /\ NumCoins = 2
    /\ i >= 1
    /\ samples = <<0, 0>>
    /\ maxcoin = 1

\* C4 as stated: a run with trial count T >= 0 reports completion only after
\* exactly T trials.
C4_CompletedAfterAllTrials ==
    (pc = "done" /\ n >= 0) => executed = n

\* C4 amended: completion is reported after exactly max(T, 0) trials, unless
\* 'n' was answered at the prompt of snapshot index s, and then after exactly
\* s + 1 trials.
C4_CompletedAfterTrialsOrStop ==
    pc = "done" =>
        executed = IF stoppedAt >= 0 THEN stoppedAt + 1
                   ELSE IF n > 0 THEN n ELSE 0

C4_Witness ==
    /\ pc = "done"
    /\ stoppedAt = 5
    /\ executed = 6
    /\ n = MaxTrials

\* C5 as stated: a snapshot hand-off never blocks the loop; the run moves on
\* whether or not the plot returns or the prompt is answered.
C5_HandOffNeverBlocks ==
    (pc \in {"plot", "input"}) ~> (pc \notin {"plot", "input"})

\* C5 amended: the loop waits at a snapshot index; the trial after a snapshot
\* index starts only from the answered prompt, with an answer other than 'n'.
C5_NextTrialOnlyAfterAnswer ==
    [][(i \in SnapshotIndices /\ i' = i + 1) => (pc = "input" /\ c' # "n")]_vars

C5_Witness ==
    /\ pc = "sample"
    /\ i = 6
    /\ c = "y"
    /\ executed = 6

InvalidConfig == NumCoins < 1 \/ n < 0

\* C6: an invalid configuration (no arms, or a negative trial count) is
\* rejected before the loop, so the run never leaves the idle state with it,
\* and no error arises inside the trial loop.
C6_InvalidConfigRejected ==
    /\ InvalidConfig => pc = "idle"
    /\ pc # "error"

SimulationAborted == pc \in {"error", "raised"}

PlotHasFailed == pc = "raised"

\* C7: a plot that raises at a snapshot index does not abort the simulation.
C7_PlotFailureIsolated ==
    PlotHasFailed => ~SimulationAborted

\* C8: whenever a sample of trial i is drawn, the updates of all i earlier
\* trials have been applied: the arms' sum of alpha + beta - 2 equals i.
C8_SampleSeesAllUpdates ==
    pc = "sample" => (ArmSum = i /\ executed = i)

C8_Witness ==
    /\ pc = "sample"
    /\ i = 3
    /\ j = 2
    /\ ArmSum = 3
    /\ \E k \in Arms : beta[k] >= 2

\* C9: when plot(coins, i) is called from the loop, the arms reflect exactly
\* i completed trials.
C9_LabelMatchesTrials ==
    pc = "plot" => ArmSum = i

\* C10: with a non-empty pool, the arm about to be updated was assigned to
\* maxcoin in the current trial, never carried over from an earlier one.
C10_MaxcoinFromThisTrial ==
    (pc = "update" /\ NumCoins > 0) => (maxcoin # 0 /\ maxcoinTrial = i)

C10_Witness ==
    /\ pc = "update"
    /\ NumCoins = 2
    /\ i = 2
    /\ \A k \in 1..Len(samples) : samples[k] = 0
    /\ maxcoinTrial = 2
    /\ alpha[2] + beta[2] > 2

====
